---- MODULE Spec2Model ----
(*****************************************************************************)
(* Persistence and trip-session core of jacar/jf_corp.                       *)
(*                                                                           *)
(*   ScanQR page (src/unnamed/part_000): iniciarViaje, finalizarViaje,       *)
(*     finalizarRuta, the shift selector, loadData and the group binding     *)
(*     kept in localStorage under buildGroupStorageKey.                      *)
(*   storage facade (src/unnamed/part_002): getTrips/saveTrips,              *)
(*     getUsers/saveUsers.                                                   *)
(*   IndexedDBService (src/src/database/indexeddb.ts): saveAll with the      *)
(*     unique cedula index, migrateFromLocalStorage.                         *)
(*   ConductorFlow (src/unnamed/part_001), trip import                       *)
(*     (src/src/utils/csvImport.ts), Users page (src/src/pages/Users.tsx).   *)
(*                                                                           *)
(* Date.now() is the variable now; it only advances by Tick, so two          *)
(* handlers may read the same millisecond.  localStorage may be full         *)
(* during a handler: the input quota says so, and then its first setItem of  *)
(* a changed value throws QuotaExceededError.  The ScanQR handlers are taken *)
(* one call at a time (iniciarViaje, finalizarViaje, finalizarRuta), with    *)
(* the passenger and conductor lists already resolved to arrays.             *)
(*                                                                           *)
(* Specifications:                                                           *)
(*   Spec         ScanQR of one conductor, localStorage possibly full        *)
(*   SpecRoutes   Spec, and the conductor's ruta edited between visits       *)
(*   SpecWriters  every writer of trips: ScanQR, ConductorFlow, the trip     *)
(*                import, and the migration to IndexedDB                     *)
(*   SpecCap      one boarding session filled up to the 18 seats             *)
(*   SpecUsers    the Users page over storage.getUsers / saveUsers           *)
(*   SpecIdb      save, getById and saveAll of IndexedDBService called       *)
(*                directly, with request and commit faults                   *)
(*   SpecMigrate  migrateFromLocalStorage run again and again around         *)
(*                new trips and users                                        *)
(*   SpecScan     a boarding session through handleQRScan and                *)
(*                handleManualEntry                                          *)
(*   SpecFacade   storage.saveUsers and getUsers as their callers see them   *)
(*   SpecSnapshot trips started for passengers that the Passengers page      *)
(*                (src/src/pages/Conductors.tsx) edits and deletes           *)
(*   SpecStartup  first start over legacy data: initializeDefaultData        *)
(*                beside migrateFromLocalStorage                             *)
(*   SpecRetry    migrateFromLocalStorage tried again after passenger edits  *)
(*****************************************************************************)
EXTENDS Integers, Sequences, FiniteSets, TLC

\* ------------------------------------------------------------- bounds
\* Last millisecond the clock reaches.
MaxTime == 2
\* Milliseconds per calendar day (the scale of the day rollover).
TicksPerDay == 2
\* Most trips in localStorage in the general specifications.
MaxTrips == 2
\* Most trips in localStorage in the capacity specification.
MaxCapTrips == 19
\* Most rows one import adds / most passengers one ConductorFlow trip holds.
MaxBatch == 1
\* Most users the Users page holds.
MaxUsers == 2

\* ---------------------------------------------------- program constants
\* part_000 line 170: currentGroupTrips.length >= 18
Capacity == 18

Manana == "manana"
Noche == "noche"
NoShift == ""
Shifts == {Manana, Noche}
ShiftValues == {NoShift} \cup Shifts

EnCurso == "en_curso"
Finalizado == "finalizado"

\* The logged-in user resolves to one conductor; its ruta may be empty.
ConductorId == "c1"
RutaValues == {"", "R"}
RutaNoEspecificada == "Ruta no especificada"
PassengerIds == {"p1"}

NoGroup == <<>>
NoTime == -1
NoResult == "none"

VARIABLES
    now,              \* Date.now()
    shift,            \* ScanQR state: selected shift
    ruta,             \* conductor?.ruta of the logged-in user's conductor
    lsTrips,          \* localStorage transport_trips (JSON array)
    lsGroups,         \* localStorage transport_current_group_* keys
    activeTrips,      \* ScanQR state
    currentGroupId,   \* ScanQR state
    scanResult,       \* ScanQR state: kind of the message shown
    lsUsers,          \* localStorage transport_users (JSON array)
    lsMigrated,       \* localStorage transport_migration_completed
    idbUsers,         \* IndexedDB object store users: id -> record
    idbTrips,         \* IndexedDB object store trips: id -> record
    users,            \* Users page state
    usersRead,        \* the IndexedDB read a getUsers() left in flight
    lsPassengers,     \* localStorage transport_passengers (legacy JSON array)
    idbPassengers,    \* IndexedDB object store passengers: id -> record
    lsConductors,     \* localStorage transport_conductors (legacy JSON array)
    idbConductors,    \* IndexedDB object store conductors: id -> record
    seedRead,         \* initializeDefaultData: what its getConductors() saw
    lastOp            \* history: the operation just run and how it ended

vars == <<now, shift, ruta, lsTrips, lsGroups, activeTrips, currentGroupId,
          scanResult, lsUsers, lsMigrated, idbUsers, idbTrips, users,
          usersRead, lsPassengers, idbPassengers, lsConductors, idbConductors,
          seedRead, lastOp>>

scanVars == <<shift, ruta, activeTrips, currentGroupId, scanResult>>
userVars == <<lsUsers, idbUsers, users, usersRead>>
peopleVars == <<lsPassengers, idbPassengers, lsConductors, idbConductors, seedRead>>

\* ------------------------------------------------------------ helpers
Day(t) == t \div TicksPerDay

\* Date.now().toString(), `trip-${Date.now()}-${index}` and uuidv4() are
\* three disjoint formats.
ScanTripId(t) == <<"ts", t, 0>>
FlowTripId(t, index) == <<"trip", t, index>>
UuidTripId(n) == <<"uuid", n, 0>>

\* `${conductorId}-${Date.now()}`
MintGroupId(conductorId, t) == <<conductorId, t>>
\* `trip-${Date.now()}`
FlowGroupId(t) == <<"trip", t>>

buildGroupStorageKey(conductorId, r, currentShift, t) ==
    << conductorId,
       IF r = "" THEN "sin_ruta" ELSE r,
       IF currentShift = NoShift THEN "sin_turno" ELSE currentShift,
       Day(t) >>

\* localStorage.getItem on the group keys
getItem(store, key) == IF key \in DOMAIN store THEN store[key] ELSE NoGroup

setItem(store, key, value) ==
    [k \in DOMAIN store \cup {key} |-> IF k = key THEN value ELSE store[k]]

removeItem(store, key) == [k \in DOMAIN store \ {key} |-> store[k]]

IsActive(trip) == trip.status = EnCurso

\* conductor?.ruta || 'Ruta no especificada'
TripRuta(r) == IF r = "" THEN RutaNoEspecificada ELSE r

Op(name, outcome) == [op |-> name, outcome |-> outcome]

\* loadData: the part of the trips that is en_curso
LoadActiveTrips(trips) == SelectSeq(trips, IsActive)

\* loadData: the group bound to (conductor, conductor?.ruta || '', shift)
LoadCurrentGroupId(groups, r, s, t) ==
    getItem(groups, buildGroupStorageKey(ConductorId, r, s, t))

\* initializeDefaultData: with no transport_users key, one default admin
DefaultCedula == "12345678"
DefaultUsers == << [id |-> <<"1", 0>>, cedula |-> DefaultCedula] >>
CedulaInputs == {DefaultCedula, "87654321"}

\* the read of getUsers(): not started, in flight, or served with a result
\* that its then-callback has not yet run on
NoRead == [stage |-> "none", result |-> <<>>]
PendingRead == [stage |-> "pending", result |-> <<>>]

\* generateDefaultPassengers(), generateDefaultConductors(): the records that
\* initializeDefaultData seeds into an empty store
DefaultPassengers ==
    << [id |-> "p1", cedula |-> "20000001", name |-> "Ana", gerencia |-> "Operaciones"] >>
DefaultConductors == << [id |-> ConductorId, cedula |-> "30000001"] >>

\* an object store with keyPath 'id' holding the records of a list
StoreOf(list) ==
    [k \in {list[i].id : i \in 1..Len(list)} |->
        list[CHOOSE i \in 1..Len(list) : list[i].id = k]]

Init ==
    /\ now = 0
    /\ shift = NoShift
    /\ ruta \in RutaValues
    /\ lsTrips = <<>>
    /\ lsGroups = <<>>
    /\ activeTrips = <<>>
    /\ currentGroupId = NoGroup
    /\ scanResult = NoResult
    /\ lsUsers = DefaultUsers
    /\ lsMigrated = FALSE
    /\ idbUsers = <<>>
    /\ idbTrips = <<>>
    /\ users = DefaultUsers
    /\ usersRead = PendingRead
    /\ lsPassengers = <<>>
    /\ idbPassengers = StoreOf(DefaultPassengers)
    /\ lsConductors = <<>>
    /\ idbConductors = StoreOf(DefaultConductors)
    /\ seedRead = "done"
    /\ lastOp = Op("init", "returned")

\* ------------------------------------------------- TripLifecycle (ScanQR)
\* part_000 line 151: if (!shift) return
ShiftUnselected(s) == TRUE

ShiftSelected(s) == s # NoShift

\* part_000 lines 169-170, with > in place of >=
CapacityReachedOffByOne(trips, groupId) ==
    Cardinality({i \in 1..Len(trips) : trips[i].groupId = groupId}) > Capacity

\* part_000 lines 169-170: every trip of the group counts, whatever its status
CapacityReached(trips, groupId) ==
    Cardinality({i \in 1..Len(trips) : trips[i].groupId = groupId}) >= Capacity

NewTrip(passengerId, groupId, s, r, t) ==
    [ id |-> ScanTripId(t),
      groupId |-> groupId,
      shift |-> s,
      passengerId |-> passengerId,
      conductorId |-> ConductorId,
      ruta |-> TripRuta(r),
      startTime |-> t,
      endTime |-> NoTime,
      status |-> EnCurso ]

\* { ...trip, status: 'finalizado', endTime: new Date().toISOString() }
FinalizeTrip(trip, t) == [trip EXCEPT !.status = Finalizado, !.endTime = t]

\* finalizarViaje: trips.map(trip => trip.id === tripId ? finalized : trip)
finalizarViajeTrips(trips, tripId, t) ==
    [i \in 1..Len(trips) |->
        IF trips[i].id = tripId THEN FinalizeTrip(trips[i], t) ELSE trips[i]]

\* finalizarRuta: the trips of the ScanQR state on this ruta select, by id,
\* the stored trips to finalize
finalizarRutaTrips(trips, active, r, t) ==
    LET tripsToFinalize == {i \in 1..Len(active) : active[i].ruta = r}
    IN  [i \in 1..Len(trips) |->
            IF \E j \in tripsToFinalize : active[j].id = trips[i].id
            THEN FinalizeTrip(trips[i], t)
            ELSE trips[i]]

\* localStorage.setItem throws QuotaExceededError only for a value that changed
SetItemThrows(quota, old, new) == quota /\ new # old

\* finalizarRuta clears the binding whether or not saveTrips threw
GroupsAfterFinalizarRutaAlways(groups, key, saveThrew) == removeItem(groups, key)

\* finalizarRuta: removeItem comes after saveTrips, so an exception of saveTrips
\* leaves the binding in place
GroupsAfterFinalizarRuta(groups, key, saveThrew) ==
    IF saveThrew THEN groups ELSE removeItem(groups, key)

\* iniciarViaje(passenger); quota: localStorage is full during this call, so the
\* first setItem of a new value throws
iniciarViaje(passengerId, quota, maxTrips) ==
    LET r == TripRuta(ruta)
        groupKey == buildGroupStorageKey(ConductorId, r, shift, now)
        existing == getItem(lsGroups, groupKey)
        groupId == IF existing = NoGroup THEN MintGroupId(ConductorId, now) ELSE existing
        groups1 == IF existing = NoGroup THEN setItem(lsGroups, groupKey, groupId) ELSE lsGroups
        updatedTrips == Append(lsTrips, NewTrip(passengerId, groupId, shift, ruta, now))
    IN
    /\ Len(lsTrips) < maxTrips
    /\ UNCHANGED <<now, shift, ruta, userVars, lsMigrated, peopleVars, idbTrips>>
    /\ IF ~ShiftSelected(shift) THEN
            /\ scanResult' = "error_turno"
            /\ lastOp' = Op("start", "InvalidState")
            /\ UNCHANGED <<lsTrips, lsGroups, activeTrips, currentGroupId>>
       ELSE IF existing = NoGroup /\ quota THEN
            /\ lastOp' = Op("start", "threw")
            /\ UNCHANGED <<lsTrips, lsGroups, activeTrips, currentGroupId, scanResult>>
       ELSE IF CapacityReached(lsTrips, groupId) THEN
            /\ lsGroups' = groups1
            /\ currentGroupId' = groupId
            /\ scanResult' = "error_capacidad"
            /\ lastOp' = Op("start", "CapacityExceeded")
            /\ UNCHANGED <<lsTrips, activeTrips>>
       ELSE IF quota THEN
            /\ lsGroups' = groups1
            /\ currentGroupId' = groupId
            /\ lastOp' = Op("start", "threw")
            /\ UNCHANGED <<lsTrips, activeTrips, scanResult>>
       ELSE
            /\ lsGroups' = groups1
            /\ lsTrips' = updatedTrips
            /\ activeTrips' = LoadActiveTrips(updatedTrips)
            /\ currentGroupId' = LoadCurrentGroupId(groups1, ruta, shift, now)
            /\ lastOp' = Op("start", "started")
            /\ UNCHANGED scanResult

\* finalizarViaje(tripId)
finalizarViaje(tripId, quota) ==
    LET updatedTrips == finalizarViajeTrips(lsTrips, tripId, now)
    IN
    /\ UNCHANGED <<now, shift, ruta, lsGroups, scanResult, userVars,
                   lsMigrated, peopleVars, idbTrips>>
    /\ IF SetItemThrows(quota, lsTrips, updatedTrips) THEN
            /\ lastOp' = Op("finalizeOne", "threw")
            /\ UNCHANGED <<lsTrips, activeTrips, currentGroupId>>
       ELSE
            /\ lsTrips' = updatedTrips
            /\ activeTrips' = LoadActiveTrips(updatedTrips)
            /\ currentGroupId' = LoadCurrentGroupId(lsGroups, ruta, shift, now)
            /\ lastOp' = Op("finalizeOne", "returned")

\* finalizarRuta(ruta), confirmed; its button exists for the rutas of activeTrips
finalizarRuta(r, quota) ==
    LET updatedTrips == finalizarRutaTrips(lsTrips, activeTrips, r, now)
        saveThrew == SetItemThrows(quota, lsTrips, updatedTrips)
        groupKey == buildGroupStorageKey(ConductorId, r, shift, now)
        groups1 == GroupsAfterFinalizarRuta(lsGroups, groupKey, saveThrew)
    IN
    /\ \E i \in 1..Len(activeTrips) : activeTrips[i].ruta = r
    /\ UNCHANGED <<now, shift, ruta, scanResult, userVars, lsMigrated, peopleVars, idbTrips>>
    /\ lsGroups' = groups1
    /\ IF saveThrew THEN
            /\ lastOp' = Op("finalizeRoute", "threw")
            /\ UNCHANGED <<lsTrips, activeTrips, currentGroupId>>
       ELSE
            /\ lsTrips' = updatedTrips
            /\ activeTrips' = LoadActiveTrips(updatedTrips)
            /\ currentGroupId' = LoadCurrentGroupId(groups1, ruta, shift, now)
            /\ lastOp' = Op("finalizeRoute", "returned")

\* the shift <select> onChange
selectShift(value) ==
    /\ value # shift
    /\ shift' = value
    /\ currentGroupId' = LoadCurrentGroupId(lsGroups, ruta, value, now)
    /\ lastOp' = Op("selectShift", "returned")
    /\ UNCHANGED <<now, ruta, lsTrips, lsGroups, activeTrips, scanResult,
                   userVars, lsMigrated, peopleVars, idbTrips>>

\* ScanQR's state after it mounts: useState initial values, then the effect
\* runs loadData with the conductor record as it is now
mountEffects(r) ==
    /\ ruta' = r
    /\ shift' = NoShift
    /\ scanResult' = NoResult
    /\ activeTrips' = LoadActiveTrips(lsTrips)
    /\ currentGroupId' = LoadCurrentGroupId(lsGroups, r, NoShift, now)

\* navigation to ScanQR; the conductor record may have been edited meanwhile
mountScanQR(r) ==
    /\ mountEffects(r)
    /\ lastOp' = Op("mount", "returned")
    /\ UNCHANGED <<now, lsTrips, lsGroups, userVars, lsMigrated, peopleVars, idbTrips>>

\* ------------------------------------------------ other writers of trips
\* processTripsFromImport: one Trip per row, id uuidv4(), no groupId, no shift,
\* status 'completed' when the row has an end time and 'active' otherwise
ImportedTrip(row, n, t) ==
    [ id |-> UuidTripId(n),
      groupId |-> NoGroup,
      shift |-> NoShift,
      passengerId |-> row.passengerId,
      conductorId |-> "",
      ruta |-> row.ruta,
      startTime |-> t,
      endTime |-> IF row.hasEnd THEN t ELSE NoTime,
      status |-> IF row.hasEnd THEN "completed" ELSE "active" ]

\* uuidv4() never repeats an id: the next ones are those no stored trip has
FreshUuid(trips) == Cardinality({i \in 1..Len(trips) : trips[i].id[1] = "uuid"})

processTripsFromImport(rows, n, t) ==
    [i \in 1..Len(rows) |-> ImportedTrip(rows[i], n + i - 1, t)]

\* importTripsFromFile: processTripsFromImport, then saveImportedTrips appends
importTrips(rows, quota, maxTrips) ==
    LET trips == processTripsFromImport(rows, FreshUuid(lsTrips), now)
        newTrips == lsTrips \o trips
    IN
    /\ Len(newTrips) <= maxTrips
    /\ UNCHANGED <<now, scanVars, lsGroups, userVars, lsMigrated, peopleVars, idbTrips>>
    /\ IF SetItemThrows(quota, lsTrips, newTrips) THEN
            /\ lastOp' = Op("importTrips", "threw")
            /\ UNCHANGED lsTrips
       ELSE
            /\ lsTrips' = newTrips
            /\ lastOp' = Op("importTrips", "returned")

\* ConductorFlow.handleFinalizeTrip: one finalizado Trip per boarded passenger
FlowTrip(passengerId, index, flowShift, r, t) ==
    [ id |-> FlowTripId(t, index),
      groupId |-> FlowGroupId(t),
      shift |-> IF flowShift = "am" THEN Manana ELSE Noche,
      passengerId |-> passengerId,
      conductorId |-> ConductorId,
      ruta |-> TripRuta(r),
      startTime |-> t,
      endTime |-> t,
      status |-> Finalizado ]

handleFinalizeTrip(tripPassengers, flowShift, r, quota, maxTrips) ==
    LET trips == [i \in 1..Len(tripPassengers) |->
                    FlowTrip(tripPassengers[i], i - 1, flowShift, r, now)]
        newTrips == lsTrips \o trips
    IN
    /\ Len(newTrips) <= maxTrips
    /\ UNCHANGED <<now, scanVars, lsGroups, userVars, lsMigrated, peopleVars, idbTrips>>
    /\ IF SetItemThrows(quota, lsTrips, newTrips) THEN
            /\ lastOp' = Op("flowFinalize", "threw")
            /\ UNCHANGED lsTrips
       ELSE
            /\ lsTrips' = newTrips
            /\ lastOp' = Op("flowFinalize", "returned")

\* ---------------------------------------------------- IndexedDBService
\* store.put(item) on an object store with keyPath 'id'
IdbPut(store, item) ==
    [k \in DOMAIN store \cup {item.id} |-> IF k = item.id THEN item ELSE store[k]]

\* the unique index on cedula: another key already holds this cedula
ViolatesUnique(store, item) ==
    \E k \in DOMAIN store : k # item.id /\ store[k].cedula = item.cedula

\* the puts of one saveAll, in order, inside its transaction
RECURSIVE PutEach(_, _, _)
PutEach(store, data, unique) ==
    IF data = <<>> THEN [ok |-> TRUE, store |-> store]
    ELSE IF unique /\ ViolatesUnique(store, Head(data))
         THEN [ok |-> FALSE, store |-> store]
         ELSE PutEach(IdbPut(store, Head(data)), Tail(data), unique)

\* saveAll(storeName, data).  abort is the environment: "request" makes a put
\* request fail (the promise rejects, the transaction rolls back), "commit"
\* lets every request succeed (the promise resolves) and aborts the commit.
\* A failed request, from the environment or the unique index, is not
\* preventDefault-ed, so it aborts the transaction as well.
saveAll(store, data, unique, abort) ==
    LET r == PutEach(store, data, unique)
    IN  IF data = <<>> THEN [resolved |-> TRUE, store |-> store]
        ELSE IF abort = "request" \/ ~r.ok THEN [resolved |-> FALSE, store |-> store]
        ELSE IF abort = "commit" THEN [resolved |-> TRUE, store |-> store]
        ELSE [resolved |-> TRUE, store |-> r.store]

\* the marker test with which migrateFromLocalStorage would never skip
MigrationNeverCompleted(marker) == FALSE

\* localStorage.getItem('transport_migration_completed') is truthy
MigrationCompleted(marker) == marker

\* one `if (xs.length > 0) await this.saveXs(xs)` of the migration; earlier:
\* no earlier saveAll of this run rejected
MigrateOne(earlier, legacy, store, unique, abort) ==
    IF ~earlier THEN [resolved |-> FALSE, store |-> store]
    ELSE IF Len(legacy) > 0 THEN saveAll(store, legacy, unique, abort)
    ELSE [resolved |-> TRUE, store |-> store]

\* migrateFromLocalStorage, run to its end, over users, passengers, conductors
\* and trips in the order of the code.  The abort inputs are the environment
\* of the four saveAll calls; othersReject: the saveAll of signatures or of
\* conductor credentials, which come last, rejects.
migrateCollections(usersAbort, passengersAbort, conductorsAbort, tripsAbort, othersReject) ==
    LET u == MigrateOne(TRUE, lsUsers, idbUsers, TRUE, usersAbort)
        p == MigrateOne(u.resolved, lsPassengers, idbPassengers, TRUE, passengersAbort)
        c == MigrateOne(p.resolved, lsConductors, idbConductors, TRUE, conductorsAbort)
        t == MigrateOne(c.resolved, lsTrips, idbTrips, FALSE, tripsAbort)
        done == t.resolved /\ ~othersReject
    IN
    /\ UNCHANGED <<now, scanVars, lsTrips, lsGroups, lsUsers, users, usersRead,
                   lsPassengers, lsConductors, seedRead>>
    /\ IF MigrationCompleted(lsMigrated) THEN
            /\ lastOp' = Op("migrate", "skipped")
            /\ UNCHANGED <<lsMigrated, idbUsers, idbTrips, idbPassengers,
                           idbConductors>>
       ELSE
            /\ idbUsers' = u.store
            /\ idbPassengers' = p.store
            /\ idbConductors' = c.store
            /\ idbTrips' = t.store
            /\ lsMigrated' = done
            /\ lastOp' = Op("migrate", IF done THEN "completed" ELSE "failed")

\* migrateFromLocalStorage where only users and trips meet faults
migrateFromLocalStorage(usersAbort, tripsAbort, othersReject) ==
    migrateCollections(usersAbort, "none", "none", tripsAbort, othersReject)

\* ------------------------------------------------- users (storage, Users)
\* Date.now().toString() as a user id
UserId(t) == <<"ts", t>>

\* the key order of the users object store: '1' sorts before any timestamp
KeyRank(k) == IF k[1] = "1" THEN -1 ELSE k[2]

\* IDBObjectStore.getAll(): the records in key order
RECURSIVE getAll(_)
getAll(store) ==
    IF DOMAIN store = {} THEN <<>>
    ELSE LET k == CHOOSE k \in DOMAIN store :
                        \A j \in DOMAIN store : KeyRank(k) <= KeyRank(j)
         IN  <<store[k]>> \o getAll([j \in DOMAIN store \ {k} |-> store[j]])

\* storage.saveUsers: localStorage first, whatever IndexedDB then does
saveUsersCache(cache, data) == data

\* storage.saveUsers(data): the cache, then saveAll whose rejection is only logged
saveUsers(data, abort) ==
    /\ lsUsers' = saveUsersCache(lsUsers, data)
    /\ idbUsers' = saveAll(idbUsers, data, TRUE, abort).store

\* Users.loadData: setUsers(storage.getUsers()); getUsers leaves an IndexedDB
\* read in flight and returns the localStorage value
loadUsers ==
    /\ users' = lsUsers
    /\ usersRead' = PendingRead
    /\ lastOp' = Op("loadUsers", "returned")
    /\ UNCHANGED <<now, scanVars, lsTrips, lsGroups, lsUsers, lsMigrated, peopleVars,
                   idbUsers, idbTrips>>

\* storage.getUsers() called by any other reader: the same read is started
\* and the localStorage value returned
storageGetUsers ==
    /\ usersRead' = PendingRead
    /\ lastOp' = Op("getUsers", "returned")
    /\ UNCHANGED <<now, scanVars, lsTrips, lsGroups, lsUsers, lsMigrated, peopleVars,
                   idbUsers, idbTrips, users>>

\* IndexedDB serves the getAll of the read in flight
getUsersRead ==
    /\ usersRead.stage = "pending"
    /\ usersRead' = [stage |-> "read", result |-> getAll(idbUsers)]
    /\ lastOp' = Op("getUsersRead", "returned")
    /\ UNCHANGED <<now, scanVars, lsTrips, lsGroups, lsUsers, lsMigrated, peopleVars,
                   idbUsers, idbTrips, users>>

\* the then-callback of getUsers: a non-empty result replaces the cache
getUsersThen ==
    /\ usersRead.stage = "read"
    /\ usersRead' = NoRead
    /\ lsUsers' = IF Len(usersRead.result) > 0 THEN usersRead.result ELSE lsUsers
    /\ lastOp' = Op("getUsersThen", "returned")
    /\ UNCHANGED <<now, scanVars, lsTrips, lsGroups, lsMigrated, peopleVars, idbUsers,
                   idbTrips, users>>

\* Users.handleSubmit with no editingUser: no check of the cedula
handleSubmitCreate(cedula, abort) ==
    LET newUser == [id |-> UserId(now), cedula |-> cedula]
        updatedUsers == Append(users, newUser)
    IN
    /\ Len(users) < MaxUsers
    /\ saveUsers(updatedUsers, abort)
    /\ users' = updatedUsers
    /\ lastOp' = Op("createUser", "returned")
    /\ UNCHANGED <<now, scanVars, lsTrips, lsGroups, lsMigrated, peopleVars, idbTrips, usersRead>>

\* Users.handleSubmit with editingUser
handleSubmitEdit(id, cedula, abort) ==
    LET updatedUsers == [i \in 1..Len(users) |->
                            IF users[i].id = id
                            THEN [users[i] EXCEPT !.cedula = cedula]
                            ELSE users[i]]
    IN
    /\ \E i \in 1..Len(users) : users[i].id = id
    /\ saveUsers(updatedUsers, abort)
    /\ users' = updatedUsers
    /\ lastOp' = Op("editUser", "returned")
    /\ UNCHANGED <<now, scanVars, lsTrips, lsGroups, lsMigrated, peopleVars, idbTrips, usersRead>>

\* Users.handleDelete, confirmed
handleDelete(id, abort) ==
    LET Keep(u) == u.id # id
        updatedUsers == SelectSeq(users, Keep)
    IN
    /\ \E i \in 1..Len(users) : users[i].id = id
    /\ saveUsers(updatedUsers, abort)
    /\ users' = updatedUsers
    /\ lastOp' = Op("deleteUser", "returned")
    /\ UNCHANGED <<now, scanVars, lsTrips, lsGroups, lsMigrated, peopleVars, idbTrips, usersRead>>

Tick ==
    /\ now < MaxTime
    /\ now' = now + 1
    /\ lastOp' = Op("tick", "returned")
    /\ UNCHANGED <<scanVars, lsTrips, lsGroups, userVars, lsMigrated, peopleVars, idbTrips>>

\* ------------------------------------------------------------ inputs
TripIdInputs == {ScanTripId(t) : t \in 0..MaxTime}
RutaInputs == {TripRuta(r) : r \in RutaValues}
AbortInputs == {"none", "request", "commit"}
ImportRows == [passengerId : {"", "p1"}, ruta : {"R"}, hasEnd : BOOLEAN]
Batches(S) == UNION {[1..n -> S] : n \in 1..MaxBatch}
UserIdInputs == {DefaultUsers[1].id} \cup {UserId(t) : t \in 0..MaxTime}

\* ---------------------------------------- ScanQR with a full localStorage
Start == \E p \in PassengerIds, quota \in BOOLEAN : iniciarViaje(p, quota, MaxTrips)
FinalizeOne == \E id \in TripIdInputs, quota \in BOOLEAN : finalizarViaje(id, quota)
FinalizeRoute == \E r \in RutaInputs, quota \in BOOLEAN : finalizarRuta(r, quota)
SelectShift == \E v \in ShiftValues : selectShift(v)
\* the page is left and entered again
Mount == mountScanQR(ruta)

Next ==
    \/ Start
    \/ FinalizeOne
    \/ FinalizeRoute
    \/ SelectShift
    \/ Mount
    \/ Tick

Spec == Init /\ [][Next]_vars

\* ------------------------------- ScanQR while the conductor's ruta is edited
MountRoute == \E r \in RutaValues \ {ruta} : mountScanQR(r)

NextRoutes ==
    \/ Start
    \/ FinalizeOne
    \/ FinalizeRoute
    \/ SelectShift
    \/ Mount
    \/ MountRoute
    \/ Tick

SpecRoutes == Init /\ [][NextRoutes]_vars

\* ----------------------------- every writer of trips, localStorage not full
StartTrip == \E p \in PassengerIds : iniciarViaje(p, FALSE, MaxTrips)
FinalizeTripById == \E id \in TripIdInputs : finalizarViaje(id, FALSE)
FinalizeTripsOfRoute == \E r \in RutaInputs : finalizarRuta(r, FALSE)
SelectWorkShift == \E v \in Shifts : selectShift(v)
ImportTrips == \E rows \in Batches(ImportRows) : importTrips(rows, FALSE, MaxTrips)
FlowFinalize == \E ps \in Batches(PassengerIds) :
                    handleFinalizeTrip(ps, "am", ruta, FALSE, MaxTrips)
MigrateTrips == \E ta \in AbortInputs, o \in BOOLEAN :
                    migrateFromLocalStorage("none", ta, o)

NextWriters ==
    \/ StartTrip
    \/ FinalizeTripById
    \/ FinalizeTripsOfRoute
    \/ SelectWorkShift
    \/ ImportTrips
    \/ FlowFinalize
    \/ MigrateTrips
    \/ Tick

SpecWriters == Init /\ [][NextWriters]_vars

\* ------------------------------------------- one vehicle filled to capacity
\* One boarding session: the morning shift is selected once and the passengers
\* board within two consecutive milliseconds, so that stored trips carry two
\* different ids.
BoardingInstants == {0, 1}
Board == iniciarViaje("p1", FALSE, MaxCapTrips)
SelectManana == shift = NoShift /\ selectShift(Manana)
NextInstant == (now + 1) \in BoardingInstants /\ Tick

NextCap ==
    \/ Board
    \/ FinalizeTripById
    \/ FinalizeTripsOfRoute
    \/ SelectManana
    \/ NextInstant

SpecCap == Init /\ [][NextCap]_vars

\* ------------------------------------------------------- the Users page
CreateUser == \E c \in CedulaInputs, a \in AbortInputs : handleSubmitCreate(c, a)
EditUser == \E id \in UserIdInputs, c \in CedulaInputs, a \in AbortInputs :
                handleSubmitEdit(id, c, a)
DeleteUser == \E id \in UserIdInputs, a \in AbortInputs : handleDelete(id, a)
MigrateUsers == \E ua \in AbortInputs, o \in BOOLEAN :
                    migrateFromLocalStorage(ua, "none", o)

NextUsers ==
    \/ loadUsers
    \/ getUsersRead
    \/ getUsersThen
    \/ CreateUser
    \/ EditUser
    \/ DeleteUser
    \/ MigrateUsers
    \/ Tick

SpecUsers == Init /\ [][NextUsers]_vars

\* ------------------------------------------------------------ properties
Last(seq) == seq[Len(seq)]

\* iniciarViaje: the key it looks the group up under, and the group it uses
StartGroupKey == buildGroupStorageKey(ConductorId, TripRuta(ruta), shift, now)
StartGroupId ==
    IF getItem(lsGroups, StartGroupKey) = NoGroup
    THEN MintGroupId(ConductorId, now)
    ELSE getItem(lsGroups, StartGroupKey)

\* the key a stored trip was started under
TripKey(trip) ==
    buildGroupStorageKey(trip.conductorId, trip.ruta, trip.shift, trip.startTime)

ActiveInGroup(trips, groupId) ==
    Cardinality({i \in 1..Len(trips) :
                    trips[i].groupId = groupId /\ IsActive(trips[i])})

HasId(trips, id) == \E i \in 1..Len(trips) : trips[i].id = id

\* C1: at any moment, the trips that are en_curso and share one groupId number
\* at most 18.
C1_ActiveTripsWithinCapacity ==
    \A i \in 1..Len(lsTrips) :
        ActiveInGroup(lsTrips, lsTrips[i].groupId) <= Capacity

\* C1 witness: a group holds 18 active trips and one more start was refused.
C1_FullGroupRefusedStart ==
    /\ lastOp = Op("start", "CapacityExceeded")
    /\ \E i \in 1..Len(lsTrips) :
            ActiveInGroup(lsTrips, lsTrips[i].groupId) = Capacity

\* every finalizado trip is the only stored trip with its id
FinalizedIdsUnique(trips) ==
    \A i, j \in 1..Len(trips) :
        (trips[i].status = Finalizado /\ trips[i].id = trips[j].id) => i = j

\* C2: a start with a shift selected fails with CapacityExceeded, leaving the
\* trips unchanged, exactly when the group it resolves to already has 18 or
\* more ACTIVE trips; so with 18 started and one of them finalized the next
\* start succeeds.  Stated for stores in which no finalized trip shares its id.
C2_RefusedIffActiveAtCapacity ==
    [][(Board /\ ShiftSelected(shift) /\ FinalizedIdsUnique(lsTrips)) =>
          /\ (lastOp' = Op("start", "CapacityExceeded"))
                <=> (ActiveInGroup(lsTrips, StartGroupId) >= Capacity)
          /\ (lastOp' = Op("start", "CapacityExceeded")) => lsTrips' = lsTrips
          /\ (lastOp' = Op("start", "started")) => Len(lsTrips') = Len(lsTrips) + 1
      ]_vars

\* C3: once a trip with a given id is finalizado in the trips collection
\* (localStorage or the migrated IndexedDB store), no later start, finalize,
\* import or migration makes a trip with that id en_curso.
C3_FinalizedNeverActiveAgain ==
    [][/\ \A i \in 1..Len(lsTrips) :
            lsTrips[i].status = Finalizado =>
                \A j \in 1..Len(lsTrips') :
                    lsTrips'[j].id = lsTrips[i].id => lsTrips'[j].status # EnCurso
       /\ \A id \in DOMAIN idbTrips :
            idbTrips[id].status = Finalizado =>
                (id \in DOMAIN idbTrips' /\ idbTrips'[id].status # EnCurso)
      ]_vars

\* C4: no two records of the users collection share a cedula, in the
\* localStorage cache storage.getUsers returns as much as in IndexedDB.
C4_UsersCedulaUnique ==
    /\ \A i, j \in 1..Len(lsUsers) :
            lsUsers[i].cedula = lsUsers[j].cedula => i = j
    /\ \A a, b \in DOMAIN idbUsers :
            idbUsers[a].cedula = idbUsers[b].cedula => a = b

\* C5: a start whose (conductor, route, shift, day) is that of a trip still
\* en_curso produces a trip with the same groupId, and a start made with
\* another shift produces a groupId different from that trip's, however close
\* in time the two starts are.
C5_GroupIdDeterminedByKey ==
    [][(\E p \in PassengerIds : iniciarViaje(p, FALSE, MaxTrips))
            /\ lastOp' = Op("start", "started") =>
          \A i \in 1..Len(lsTrips) :
            /\ (IsActive(lsTrips[i]) /\ TripKey(lsTrips[i]) = TripKey(Last(lsTrips')))
                    => lsTrips[i].groupId = Last(lsTrips').groupId
            /\ lsTrips[i].shift # Last(lsTrips').shift
                    => lsTrips[i].groupId # Last(lsTrips').groupId
      ]_vars

\* C6: while a groupId is bound to a key every successful start for that key
\* uses it; only finalizarRuta removes a binding; after finalizarRuta returns
\* the binding of its route is absent, and the next start for the key mints a
\* groupId different from the one its earlier trips carry.
C6_BindingStableUntilFinalizeRoute ==
    [][/\ ((\E p \in PassengerIds : iniciarViaje(p, FALSE, MaxTrips))
                /\ lastOp' = Op("start", "started")) =>
            /\ getItem(lsGroups, StartGroupKey) # NoGroup
                    => Last(lsTrips').groupId = getItem(lsGroups, StartGroupKey)
            /\ getItem(lsGroups, StartGroupKey) = NoGroup
                    => \A i \in 1..Len(lsTrips) :
                          TripKey(lsTrips[i]) = StartGroupKey
                              => lsTrips[i].groupId # Last(lsTrips').groupId
       /\ (\E k \in DOMAIN lsGroups : k \notin DOMAIN lsGroups')
                => \E r \in RutaInputs, q \in BOOLEAN : finalizarRuta(r, q)
       /\ \A r \in RutaInputs :
            (finalizarRuta(r, FALSE) /\ lastOp' = Op("finalizeRoute", "returned"))
                => buildGroupStorageKey(ConductorId, r, shift, now)
                        \notin DOMAIN lsGroups'
      ]_vars

\* C7: finalizarRuta(route) makes every stored trip that is en_curso on that
\* route finalizado with the end time now, and leaves every other stored trip,
\* on another route or already finalizado, exactly as it was.
C7_FinalizeRouteTouchesOnlyItsActiveTrips ==
    [][\A r \in RutaInputs :
          (finalizarRuta(r, FALSE) /\ lastOp' = Op("finalizeRoute", "returned")) =>
            /\ Len(lsTrips') = Len(lsTrips)
            /\ \A i \in 1..Len(lsTrips) :
                lsTrips'[i] = IF IsActive(lsTrips[i]) /\ lsTrips[i].ruta = r
                              THEN FinalizeTrip(lsTrips[i], now)
                              ELSE lsTrips[i]
      ]_vars

\* C8: when the save of the finalized trips fails inside finalizarRuta, no
\* group binding is cleared (and the stored trips stay as they were).
C8_FailedFinalizeRouteKeepsBinding ==
    [][\A r \in RutaInputs, q \in BOOLEAN :
          (finalizarRuta(r, q) /\ lastOp' = Op("finalizeRoute", "threw")) =>
            /\ lsGroups' = lsGroups
            /\ lsTrips' = lsTrips
      ]_vars

\* C8 witness: finalizarRuta has just failed on a route whose binding, for the
\* selected shift, is there and still there.
C8_FailedWithBindingPresent ==
    /\ lastOp = Op("finalizeRoute", "threw")
    /\ \E i \in 1..Len(activeTrips) :
            buildGroupStorageKey(ConductorId, activeTrips[i].ruta, shift, now)
                \in DOMAIN lsGroups

\* C9: a start with no shift selected fails with InvalidState, and neither the
\* trips nor the group bindings change.
C9_StartWithoutShiftChangesNothing ==
    [][\A p \in PassengerIds, q \in BOOLEAN :
          (iniciarViaje(p, q, MaxTrips) /\ shift = NoShift) =>
            /\ lastOp' = Op("start", "InvalidState")
            /\ lsTrips' = lsTrips
            /\ lsGroups' = lsGroups
      ]_vars

\* C9 witness: a start was refused for want of a shift while trips of an
\* earlier session are stored.
C9_RefusedWithoutShift ==
    /\ lastOp = Op("start", "InvalidState")
    /\ scanResult = "error_turno"
    /\ shift = NoShift
    /\ Len(lsTrips) > 0

\* C10: finalizarViaje with an id no stored trip has reports NotFound and
\* leaves the trips unchanged.
C10_UnknownIdReportsNotFound ==
    [][\A id \in TripIdInputs, q \in BOOLEAN :
          (finalizarViaje(id, q) /\ ~HasId(lsTrips, id)) =>
            /\ lastOp' = Op("finalizeOne", "NotFound")
            /\ lsTrips' = lsTrips
      ]_vars

\* C11: finalizarViaje on a trip that is already finalizado succeeds and is a
\* no-op: that trip, its end time included, and every other trip are the same
\* before and after the call.
C11_FinalizeOneIdempotent ==
    [][\A id \in TripIdInputs :
          (/\ finalizarViaje(id, FALSE)
           /\ HasId(lsTrips, id)
           /\ \A i \in 1..Len(lsTrips) :
                lsTrips[i].id = id => lsTrips[i].status = Finalizado) =>
            /\ lastOp' = Op("finalizeOne", "returned")
            /\ lsTrips' = lsTrips
      ]_vars

\* ------------------------------------- IndexedDBService called directly
Null == <<>>

\* save(storeName, data) with no unique index on the store
saveUnchecked(store, item, unique, abort) ==
    IF abort = "request" THEN [outcome |-> "RequestError", store |-> store]
    ELSE IF abort = "commit" THEN [outcome |-> "resolved", store |-> store]
    ELSE [outcome |-> "resolved", store |-> IdbPut(store, item)]

\* save(storeName, data): one put in its own transaction.  The promise
\* resolves on the request's success event and rejects on its error event;
\* the transaction commits, or aborts, after that.
save(store, item, unique, abort) ==
    IF unique /\ ViolatesUnique(store, item)
    THEN [outcome |-> "ConstraintError", store |-> store]
    ELSE IF abort = "request" THEN [outcome |-> "RequestError", store |-> store]
    ELSE IF abort = "commit" THEN [outcome |-> "resolved", store |-> store]
    ELSE [outcome |-> "resolved", store |-> IdbPut(store, item)]

\* getById(storeName, id): request.result || null
getById(store, id) == IF id \in DOMAIN store THEN store[id] ELSE Null

IdbCedulas == CedulaInputs \cup {"11223344"}
IdbUserIds == {DefaultUsers[1].id, UserId(0), UserId(1)}
UserRecords == [id : IdbUserIds, cedula : IdbCedulas]
IdbTrips == {NewTrip("p1", MintGroupId(ConductorId, 0), Manana, "R", t) : t \in {0, 1}}
TripRecords == IdbTrips \cup {FinalizeTrip(trip, trip.startTime) : trip \in IdbTrips}
UserBatches == UNION {[1..n -> UserRecords] : n \in {1, 2}}

saveUser(item, abort) ==
    /\ idbUsers' = save(idbUsers, item, TRUE, abort).store
    /\ lastOp' = Op("saveUser", save(idbUsers, item, TRUE, abort).outcome)
    /\ UNCHANGED <<now, scanVars, lsTrips, lsGroups, lsUsers, lsMigrated, peopleVars,
                   idbTrips, users, usersRead>>

saveTrip(item, abort) ==
    /\ idbTrips' = save(idbTrips, item, FALSE, abort).store
    /\ lastOp' = Op("saveTrip", save(idbTrips, item, FALSE, abort).outcome)
    /\ UNCHANGED <<now, scanVars, lsTrips, lsGroups, lsUsers, lsMigrated, peopleVars,
                   idbUsers, users, usersRead>>

saveAllUsers(data, abort) ==
    /\ idbUsers' = saveAll(idbUsers, data, TRUE, abort).store
    /\ lastOp' = Op("saveAllUsers",
                    IF saveAll(idbUsers, data, TRUE, abort).resolved
                    THEN "resolved" ELSE "rejected")
    /\ UNCHANGED <<now, scanVars, lsTrips, lsGroups, lsUsers, lsMigrated, peopleVars,
                   idbTrips, users, usersRead>>

SaveUser == \E item \in UserRecords, a \in AbortInputs : saveUser(item, a)
SaveTrip == \E item \in TripRecords, a \in AbortInputs : saveTrip(item, a)
SaveAllUsers == \E data \in UserBatches, a \in AbortInputs : saveAllUsers(data, a)

NextIdb ==
    \/ SaveUser
    \/ SaveTrip
    \/ SaveAllUsers

SpecIdb == Init /\ [][NextIdb]_vars

\* C12: save of a record whose cedula a record with another id already owns,
\* on a store with the unique cedula index (users, passengers, conductors),
\* fails with the constraint error, and the store holds exactly the records it
\* held before.
C12_DuplicateCedulaRejected ==
    [][\A item \in UserRecords, a \in AbortInputs :
          (/\ saveUser(item, a)
           /\ \E k \in DOMAIN idbUsers :
                k # item.id /\ idbUsers[k].cedula = item.cedula) =>
            /\ lastOp' = Op("saveUser", "ConstraintError")
            /\ idbUsers' = idbUsers
      ]_vars

\* C12 witness: a save was just refused for its cedula, whose owner is stored.
C12_RefusedDuplicate ==
    /\ lastOp = Op("saveUser", "ConstraintError")
    /\ \E k \in DOMAIN idbUsers : idbUsers[k].cedula = DefaultCedula

\* C13: after save(r) resolves, getById(r.id) returns r, on the stores with
\* and without a unique index; a save under an id already stored keeps the
\* number of records, a save under a new id adds one.
C13_SaveThenGetById ==
    [][/\ \A item \in UserRecords, a \in AbortInputs :
            (saveUser(item, a) /\ lastOp' = Op("saveUser", "resolved")) =>
                /\ getById(idbUsers', item.id) = item
                /\ Cardinality(DOMAIN idbUsers') =
                      IF item.id \in DOMAIN idbUsers
                      THEN Cardinality(DOMAIN idbUsers)
                      ELSE Cardinality(DOMAIN idbUsers) + 1
       /\ \A item \in TripRecords, a \in AbortInputs :
            (saveTrip(item, a) /\ lastOp' = Op("saveTrip", "resolved")) =>
                /\ getById(idbTrips', item.id) = item
                /\ Cardinality(DOMAIN idbTrips') =
                      IF item.id \in DOMAIN idbTrips
                      THEN Cardinality(DOMAIN idbTrips)
                      ELSE Cardinality(DOMAIN idbTrips) + 1
      ]_vars

\* C14: when saveAll of one or more records resolves, every one of them is in
\* the store.
C14_ResolvedSaveAllIsStored ==
    [][\A data \in UserBatches, a \in AbortInputs :
          (saveAllUsers(data, a) /\ lastOp' = Op("saveAllUsers", "resolved")) =>
            \A i \in 1..Len(data) : data[i].id \in DOMAIN idbUsers'
      ]_vars

\* ------------------------------------------------- the migration, re-run
\* Trips are started and users created on either side of runs of the
\* migration, whose saveAll calls meet request and commit faults.
MigrateAll == \E ua \in AbortInputs, ta \in AbortInputs, o \in BOOLEAN :
                  migrateFromLocalStorage(ua, ta, o)

NextMigrate ==
    \/ StartTrip
    \/ SelectManana
    \/ CreateUser
    \/ MigrateAll
    \/ NextInstant

SpecMigrate == Init /\ [][NextMigrate]_vars

\* every record of a legacy collection is in the object store under its id
StoredIn(store, legacy) ==
    \A i \in 1..Len(legacy) : getById(store, legacy[i].id) = legacy[i]

\* a saveAll of this run of the migration rejects
UsersRejected(ua) ==
    Len(lsUsers) > 0 /\ ~saveAll(idbUsers, lsUsers, TRUE, ua).resolved
TripsRejected(ta) ==
    Len(lsTrips) > 0 /\ ~saveAll(idbTrips, lsTrips, FALSE, ta).resolved

\* C15: when the completion marker is set, a run of the migration writes to no
\* object store and leaves the marker and the legacy localStorage collections
\* as they were.
C15_MigratedRunWritesNothing ==
    [][\A ua \in AbortInputs, ta \in AbortInputs, o \in BOOLEAN :
          (migrateFromLocalStorage(ua, ta, o) /\ lsMigrated) =>
            /\ lastOp' = Op("migrate", "skipped")
            /\ UNCHANGED <<idbUsers, idbTrips, idbPassengers, idbConductors,
                           lsMigrated, lsUsers, lsTrips, lsGroups,
                           lsPassengers, lsConductors>>
      ]_vars

\* C15 witness: a run was skipped while localStorage held a trip and a user
\* that IndexedDB did not.
C15_SkippedWithUnmigratedData ==
    /\ lastOp = Op("migrate", "skipped")
    /\ lsMigrated
    /\ ~StoredIn(idbTrips, lsTrips)
    /\ ~StoredIn(idbUsers, lsUsers)

\* C16: a run of the migration with the marker unset returns normally; when one
\* of its saveAll calls rejects the marker stays unset, so that the next run
\* writes every non-empty collection again; and when it sets the marker every
\* record of the legacy collections is in IndexedDB.
C16_MarkerOnlyAfterAllWritten ==
    [][\A ua \in AbortInputs, ta \in AbortInputs, o \in BOOLEAN :
          (migrateFromLocalStorage(ua, ta, o) /\ ~lsMigrated) =>
            /\ lastOp' \in {Op("migrate", "completed"), Op("migrate", "failed")}
            /\ (UsersRejected(ua) \/ TripsRejected(ta) \/ o) => ~lsMigrated'
            /\ lsMigrated' => /\ StoredIn(idbUsers', lsUsers)
                              /\ StoredIn(idbTrips', lsTrips)
      ]_vars

\* C17: the second of two consecutive runs of the migration, the first of which
\* started with the marker unset and completed or failed part-way, leaves,
\* unless it fails itself, every legacy record in IndexedDB under its id, as one
\* run to completion does.
C17_SecondRunAsOneCompleteRun ==
    [][\A ua \in AbortInputs, ta \in AbortInputs, o \in BOOLEAN :
          (/\ migrateFromLocalStorage(ua, ta, o)
           /\ lastOp \in {Op("migrate", "completed"), Op("migrate", "failed")}
           /\ lastOp' # Op("migrate", "failed")) =>
            /\ StoredIn(idbUsers', lsUsers)
            /\ StoredIn(idbTrips', lsTrips)
      ]_vars

\* C18: after a start, a finalizarViaje or a finalizarRuta has saved the trips
\* through storage.saveTrips, every saved trip is in the trips object store of
\* IndexedDB.
C18_SavedTripsReachIndexedDB ==
    [][(\/ \E p \in PassengerIds :
              iniciarViaje(p, FALSE, MaxTrips) /\ lastOp' = Op("start", "started")
        \/ \E id \in TripIdInputs :
              finalizarViaje(id, FALSE) /\ lastOp' = Op("finalizeOne", "returned")
        \/ \E r \in RutaInputs :
              finalizarRuta(r, FALSE) /\ lastOp' = Op("finalizeRoute", "returned"))
       => StoredIn(idbTrips', lsTrips')
      ]_vars

\* --------------------------------------- ScanQR: the identification events
\* what iniciarViaje(passenger) does to localStorage and to the ScanQR state,
\* as one record; scanResult is the message iniciarViaje itself sets
iniciarViajeResult(passengerId, quota) ==
    LET r == TripRuta(ruta)
        groupKey == buildGroupStorageKey(ConductorId, r, shift, now)
        existing == getItem(lsGroups, groupKey)
        groupId == IF existing = NoGroup THEN MintGroupId(ConductorId, now) ELSE existing
        groups1 == IF existing = NoGroup THEN setItem(lsGroups, groupKey, groupId) ELSE lsGroups
        updatedTrips == Append(lsTrips, NewTrip(passengerId, groupId, shift, ruta, now))
        same == [outcome |-> "InvalidState", lsTrips |-> lsTrips, lsGroups |-> lsGroups,
                 activeTrips |-> activeTrips, currentGroupId |-> currentGroupId,
                 scanResult |-> scanResult]
    IN  IF ~ShiftSelected(shift) THEN
            [same EXCEPT !.scanResult = "error_turno"]
        ELSE IF existing = NoGroup /\ quota THEN
            [same EXCEPT !.outcome = "threw"]
        ELSE IF CapacityReached(lsTrips, groupId) THEN
            [same EXCEPT !.outcome = "CapacityExceeded", !.lsGroups = groups1,
                         !.currentGroupId = groupId, !.scanResult = "error_capacidad"]
        ELSE IF quota THEN
            [same EXCEPT !.outcome = "threw", !.lsGroups = groups1,
                         !.currentGroupId = groupId]
        ELSE
            [same EXCEPT !.outcome = "started", !.lsGroups = groups1,
                         !.lsTrips = updatedTrips,
                         !.activeTrips = LoadActiveTrips(updatedTrips),
                         !.currentGroupId = LoadCurrentGroupId(groups1, ruta, shift, now)]

\* what finalizarViaje(tripId) does, as one record
finalizarViajeResult(tripId, quota) ==
    LET updatedTrips == finalizarViajeTrips(lsTrips, tripId, now)
    IN  IF SetItemThrows(quota, lsTrips, updatedTrips)
        THEN [outcome |-> "threw", lsTrips |-> lsTrips, lsGroups |-> lsGroups,
              activeTrips |-> activeTrips, currentGroupId |-> currentGroupId,
              scanResult |-> scanResult]
        ELSE [outcome |-> "finalized", lsTrips |-> updatedTrips, lsGroups |-> lsGroups,
              activeTrips |-> LoadActiveTrips(updatedTrips),
              currentGroupId |-> LoadCurrentGroupId(lsGroups, ruta, shift, now),
              scanResult |-> scanResult]

\* the message the handler sets after the call it made returned
MessageAfter(outcome) ==
    IF outcome = "finalized" THEN "success_finalizado" ELSE "success_iniciado"

\* a handler that looks no trip up and so starts one at every identification
TripsOfNoPassenger(active, passengerId) == {}

\* activeTrips.find(t => t.passengerId === passenger.id): the positions of the
\* passenger's trips in the ScanQR state
TripsOfPassenger(active, passengerId) ==
    {i \in 1..Len(active) : active[i].passengerId = passengerId}

\* the part handleQRScan and handleManualEntry share, from passengers.find on:
\* an unknown cedula is refused; a passenger with a trip in activeTrips has it
\* finalized, any other passenger has a trip started; then the success message
\* is set, whatever the call did.  caught: the handler has a try/catch, whose
\* catch sets the invalid-QR message.
identify(name, passengerId, quota, caught, maxTrips) ==
    LET mine == TripsOfPassenger(activeTrips, passengerId)
        existingTrip == activeTrips[CHOOSE i \in mine : \A j \in mine : i <= j]
        res == IF mine # {} THEN finalizarViajeResult(existingTrip.id, quota)
               ELSE iniciarViajeResult(passengerId, quota)
    IN
    /\ UNCHANGED <<now, shift, ruta, userVars, lsMigrated, peopleVars, idbTrips>>
    /\ IF passengerId \notin PassengerIds THEN
            /\ scanResult' = "error_no_encontrado"
            /\ lastOp' = Op(name, "NotFound")
            /\ UNCHANGED <<lsTrips, lsGroups, activeTrips, currentGroupId>>
       ELSE
            /\ mine = {} => Len(lsTrips) < maxTrips
            /\ lsTrips' = res.lsTrips
            /\ lsGroups' = res.lsGroups
            /\ activeTrips' = res.activeTrips
            /\ currentGroupId' = res.currentGroupId
            /\ scanResult' = IF res.outcome # "threw" THEN MessageAfter(res.outcome)
                             ELSE IF caught THEN "error_qr"
                             ELSE res.scanResult
            /\ lastOp' = Op(name, res.outcome)

\* handleQRScan(qrData); parseQRData throws on a code it cannot read
handleQRScan(qr, quota, maxTrips) ==
    IF qr = "invalid" THEN
        /\ scanResult' = "error_qr"
        /\ lastOp' = Op("handleQRScan", "InvalidQR")
        /\ UNCHANGED <<now, shift, ruta, userVars, lsMigrated, peopleVars, idbTrips, lsTrips,
                       lsGroups, activeTrips, currentGroupId>>
    ELSE identify("handleQRScan", qr, quota, TRUE, maxTrips)

\* handleManualEntry, with manualCedula as typed
handleManualEntry(cedula, quota, maxTrips) ==
    IF cedula = "" THEN
        /\ scanResult' = "error_cedula"
        /\ lastOp' = Op("handleManualEntry", "EmptyCedula")
        /\ UNCHANGED <<now, shift, ruta, userVars, lsMigrated, peopleVars, idbTrips, lsTrips,
                       lsGroups, activeTrips, currentGroupId>>
    ELSE identify("handleManualEntry", cedula, quota, FALSE, maxTrips)

ErrorResults == {"error_turno", "error_capacidad", "error_no_encontrado",
                 "error_qr", "error_cedula"}
QRInputs == {"invalid", "p0"} \cup PassengerIds
CedulaEntries == {"", "p0"} \cup PassengerIds

\* one boarding session in which passengers are identified by QR or by cedula
ScanQRCode == \E qr \in QRInputs, quota \in BOOLEAN : handleQRScan(qr, quota, MaxCapTrips)
ManualEntry == \E c \in CedulaEntries, quota \in BOOLEAN :
                  handleManualEntry(c, quota, MaxCapTrips)

NextScan ==
    \/ ScanQRCode
    \/ ManualEntry
    \/ SelectManana
    \/ FinalizeTripsOfRoute
    \/ NextInstant

SpecScan == Init /\ [][NextScan]_vars

\* C19: an identification event in which iniciarViaje refused the start, for
\* the missing shift or for the full group, ends with an error message shown.
C19_RefusedStartReportedAsError ==
    [][\A p \in PassengerIds, quota \in BOOLEAN :
          (/\ \/ handleQRScan(p, quota, MaxCapTrips)
              \/ handleManualEntry(p, quota, MaxCapTrips)
           /\ lastOp'.outcome \in {"InvalidState", "CapacityExceeded"}) =>
            scanResult' \in ErrorResults
      ]_vars

\* ----------------------------------------- storage.saveUsers, as its caller
\* sees it: the rejection of indexedDBService.saveUsers is caught and logged,
\* so the promise of storage.saveUsers resolves whatever IndexedDB did
storageSaveUsers(data, abort) ==
    /\ saveUsers(data, abort)
    /\ lastOp' = Op("saveUsers", "resolved")
    /\ UNCHANGED <<now, scanVars, lsTrips, lsGroups, lsMigrated, peopleVars, idbTrips,
                   users, usersRead>>

\* the lists of users the pages pass: one or two of the default admin and a
\* user created later, under either cedula
FacadeUsers == [id : {DefaultUsers[1].id, UserId(0)}, cedula : CedulaInputs]
FacadeBatches == UNION {[1..n -> FacadeUsers] : n \in {1, 2}}

StorageSaveUsers == \E data \in FacadeBatches, a \in AbortInputs :
                        storageSaveUsers(data, a)

NextFacade ==
    \/ StorageSaveUsers
    \/ MigrateUsers
    \/ storageGetUsers
    \/ getUsersRead
    \/ getUsersThen

SpecFacade == Init /\ [][NextFacade]_vars

\* C20: when the IndexedDB write inside storage.saveUsers is rejected, for a
\* duplicate cedula or for a failed request, storage.saveUsers does not
\* complete normally.
C20_RejectedWriteFailsSaveUsers ==
    [][\A data \in FacadeBatches, a \in AbortInputs :
          (/\ storageSaveUsers(data, a)
           /\ ~saveAll(idbUsers, data, TRUE, a).resolved) =>
            lastOp' # Op("saveUsers", "resolved")
      ]_vars

\* C21: every trip that a step appends to the stored trips has status
\* en_curso, and only a start of ScanQR appends one.
C21_TripsEnterActive ==
    [][/\ \A i \in (Len(lsTrips) + 1)..Len(lsTrips') : lsTrips'[i].status = EnCurso
       /\ Len(lsTrips') > Len(lsTrips) => lastOp' = Op("start", "started")
      ]_vars

\* C22: after Users.handleDelete of a user, with no fault in IndexedDB, the
\* user is in neither the users object store nor the users cache that getUsers
\* returns.
C22_DeletedUserIsGone ==
    [][\A id \in UserIdInputs :
          handleDelete(id, "none") =>
            /\ id \notin DOMAIN idbUsers'
            /\ ~HasId(lsUsers', id)
      ]_vars

\* ------------------------------------- trips and the Passengers page
NameInputs == {"Ana", "Eva"}
GerenciaInputs == {"Operaciones", "Finanzas"}
PassengerCedulas == {"20000001", "20000002"}
PassengerRecords ==
    [id : PassengerIds, cedula : PassengerCedulas, name : NameInputs,
     gerencia : GerenciaInputs]

\* indexedDBService.getPassengers(): the records of the store as a list
PassengerOrder == <<"p1">>
getPassengers(store) ==
    LET Stored(k) == k \in DOMAIN store
        keys == SelectSeq(PassengerOrder, Stored)
    IN  [i \in 1..Len(keys) |-> store[keys[i]]]

\* the passenger fields that newTrip copies: passengerName, passengerCedula
PassengerSnapshot(passenger) ==
    [passengerName |-> passenger.name, passengerCedula |-> passenger.cedula]

\* iniciarViaje(passenger) with the passenger record as ScanQR loaded it
iniciarViajePassenger(passenger, quota, maxTrips) ==
    LET res == iniciarViajeResult(passenger.id, quota)
        stored == [i \in 1..Len(res.lsTrips) |->
                      IF i = Len(res.lsTrips) /\ res.outcome = "started"
                      THEN res.lsTrips[i] @@ PassengerSnapshot(passenger)
                      ELSE res.lsTrips[i]]
    IN
    /\ Len(lsTrips) < maxTrips
    /\ UNCHANGED <<now, shift, ruta, userVars, lsMigrated, peopleVars, idbTrips>>
    /\ lsTrips' = stored
    /\ lsGroups' = res.lsGroups
    /\ activeTrips' = LoadActiveTrips(stored)
    /\ currentGroupId' = res.currentGroupId
    /\ scanResult' = res.scanResult
    /\ lastOp' = Op("start", res.outcome)

\* Passengers.handleSubmit with editingPassenger: refused when another
\* passenger of the page has the cedula, else the whole list is saved
handleSubmitPassenger(id, formData, abort) ==
    LET passengers == getPassengers(idbPassengers)
        updatedPassengers ==
            [i \in 1..Len(passengers) |->
                IF passengers[i].id = id
                THEN [passengers[i] EXCEPT !.name = formData.name,
                                           !.cedula = formData.cedula,
                                           !.gerencia = formData.gerencia]
                ELSE passengers[i]]
    IN
    /\ id \in DOMAIN idbPassengers
    /\ UNCHANGED <<now, scanVars, lsTrips, lsGroups, userVars, lsMigrated,
                   idbTrips, lsPassengers, lsConductors, idbConductors, seedRead>>
    /\ IF \E i \in 1..Len(passengers) :
              passengers[i].cedula = formData.cedula /\ passengers[i].id # id
       THEN /\ lastOp' = Op("editPassenger", "DuplicateCedula")
            /\ UNCHANGED idbPassengers
       ELSE /\ idbPassengers' = saveAll(idbPassengers, updatedPassengers, TRUE, abort).store
            /\ lastOp' = Op("editPassenger", "returned")

\* Passengers.handleDelete, confirmed: the list without the passenger is saved
handleDeletePassenger(id, abort) ==
    LET passengers == getPassengers(idbPassengers)
        Keep(p) == p.id # id
        updatedPassengers == SelectSeq(passengers, Keep)
    IN
    /\ id \in DOMAIN idbPassengers
    /\ UNCHANGED <<now, scanVars, lsTrips, lsGroups, userVars, lsMigrated,
                   idbTrips, lsPassengers, lsConductors, idbConductors, seedRead>>
    /\ idbPassengers' = saveAll(idbPassengers, updatedPassengers, TRUE, abort).store
    /\ lastOp' = Op("deletePassenger", "returned")

StartPassengerTrip == \E id \in DOMAIN idbPassengers :
                          iniciarViajePassenger(idbPassengers[id], FALSE, MaxTrips)
EditPassenger == \E id \in PassengerIds, a \in AbortInputs,
                    formData \in [name : NameInputs, cedula : PassengerCedulas,
                                  gerencia : GerenciaInputs] :
                        handleSubmitPassenger(id, formData, a)
DeletePassenger == \E id \in PassengerIds, a \in AbortInputs :
                        handleDeletePassenger(id, a)

NextSnapshot ==
    \/ StartPassengerTrip
    \/ SelectManana
    \/ FinalizeTripById
    \/ EditPassenger
    \/ DeletePassenger
    \/ NextInstant

SpecSnapshot == Init /\ [][NextSnapshot]_vars

\* the fields of a stored trip that hold text
TextFields(trip) == DOMAIN trip \ {"id", "groupId", "startTime", "endTime"}

\* C23: the trip that a start stores carries the name, the cedula and the
\* gerencia of the passenger as they were at the start, and an edit or a
\* deletion of the passenger leaves every stored trip as it was.
C23_TripKeepsPassengerSnapshot ==
    [][/\ \A p \in PassengerRecords :
            (/\ iniciarViajePassenger(p, FALSE, MaxTrips)
             /\ lastOp' = Op("start", "started")) =>
                /\ Last(lsTrips').passengerName = p.name
                /\ Last(lsTrips').passengerCedula = p.cedula
                /\ \E f \in TextFields(Last(lsTrips')) : Last(lsTrips')[f] = p.gerencia
       /\ lastOp'.op \in {"editPassenger", "deletePassenger"} => lsTrips' = lsTrips
      ]_vars

\* C24: finalizarViaje of the id of an en_curso trip makes that one trip
\* finalizado with the current time as its endTime, and changes no other trip,
\* no group binding and no other collection.
C24_FinalizeOneChangesOneTrip ==
    [][\A id \in TripIdInputs :
          (/\ finalizarViaje(id, FALSE)
           /\ \E k \in 1..Len(lsTrips) : lsTrips[k].id = id /\ IsActive(lsTrips[k])) =>
            /\ \E k \in 1..Len(lsTrips) :
                  /\ lsTrips[k].id = id
                  /\ IsActive(lsTrips[k])
                  /\ lsTrips' = [lsTrips EXCEPT ![k] = FinalizeTrip(lsTrips[k], now)]
            /\ UNCHANGED <<lsGroups, lsUsers, idbUsers, idbTrips, lsMigrated,
                           lsPassengers, idbPassengers, lsConductors, idbConductors>>
      ]_vars

\* C25: when finalizarRuta of a route has returned, no binding of that route,
\* under either shift, still holds the groupId of a trip it just finalized, so
\* that the next start on the route cannot be given that group again.
C25_FinalizeRouteClearsUsedBinding ==
    [][\A r \in RutaInputs :
          (finalizarRuta(r, FALSE) /\ lastOp' = Op("finalizeRoute", "returned")) =>
            \A s \in Shifts, k \in 1..Len(lsTrips) :
                (IsActive(lsTrips[k]) /\ ~IsActive(lsTrips'[k])) =>
                    getItem(lsGroups', buildGroupStorageKey(ConductorId, r, s, now))
                        # lsTrips[k].groupId
      ]_vars

\* C26: in a session driven by handleQRScan and handleManualEntry, the stored
\* trips never hold two en_curso trips of one passenger.
C26_OneActiveTripPerPassenger ==
    \A p \in PassengerIds :
        Cardinality({i \in 1..Len(lsTrips) :
                        lsTrips[i].passengerId = p /\ IsActive(lsTrips[i])}) <= 1

\* C26 witness: a passenger whose earlier trip was finalized by an
\* identification has just been given a new trip by another one.
C26_StartedAgainAfterFinalize ==
    /\ lastOp \in {Op("handleQRScan", "started"), Op("handleManualEntry", "started")}
    /\ \E i, j \in 1..Len(lsTrips) :
          /\ lsTrips[i].passengerId = lsTrips[j].passengerId
          /\ lsTrips[i].status = Finalizado
          /\ IsActive(lsTrips[j])

\* C27: no two stored trips share an id, whatever starts, ConductorFlow
\* finalizations and imports wrote them, and so a finalizarViaje changes at
\* most one stored trip.
C27_TripIdsUnique ==
    \A i, j \in 1..Len(lsTrips) : lsTrips[i].id = lsTrips[j].id => i = j

\* C28: when storage.saveUsers has just written a list to the cache and to
\* IndexedDB alike, the then-callback of a getUsers() started earlier leaves
\* the cache holding that list.
C28_RefreshKeepsSavedUsers ==
    [][(/\ getUsersThen
        /\ lastOp = Op("saveUsers", "resolved")
        /\ getAll(idbUsers) = lsUsers) =>
          lsUsers' = lsUsers
      ]_vars

\* ------------------------------------ startup of an installation with
\* legacy data: localStorage holds passengers and conductors of a version
\* that kept them there, IndexedDB is new and empty, and neither the migration
\* nor initializeDefaultData has run
LegacyPassengers == DefaultPassengers
LegacyConductors == << [id |-> "c9", cedula |-> "30000009"] >>

InitLegacy ==
    /\ now = 0
    /\ shift = NoShift
    /\ ruta \in RutaValues
    /\ lsTrips = <<>>
    /\ lsGroups = <<>>
    /\ activeTrips = <<>>
    /\ currentGroupId = NoGroup
    /\ scanResult = NoResult
    /\ lsUsers = DefaultUsers
    /\ lsMigrated = FALSE
    /\ idbUsers = <<>>
    /\ idbTrips = <<>>
    /\ users = DefaultUsers
    /\ usersRead = PendingRead
    /\ lsPassengers = LegacyPassengers
    /\ idbPassengers = <<>>
    /\ lsConductors = LegacyConductors
    /\ idbConductors = <<>>
    /\ seedRead = "idle"
    /\ lastOp = Op("init", "returned")

\* initializeDefaultData up to the answer of `await getConductors()`
seedReadConductors ==
    /\ seedRead = "idle"
    /\ seedRead' = IF DOMAIN idbConductors = {} THEN "conductorsEmpty"
                   ELSE "conductorsFound"
    /\ lastOp' = Op("seedReadConductors", "returned")
    /\ UNCHANGED <<now, scanVars, lsTrips, lsGroups, userVars, lsMigrated, idbTrips,
                   lsPassengers, idbPassengers, lsConductors, idbConductors>>

\* ... from there to the end of its first try block: the default conductors
\* are saved when the read found none; a rejection is caught and logged
seedSaveConductors(abort) ==
    /\ seedRead \in {"conductorsEmpty", "conductorsFound"}
    /\ seedRead' = "passengers"
    /\ idbConductors' =
          IF seedRead = "conductorsEmpty"
          THEN saveAll(idbConductors, DefaultConductors, TRUE, abort).store
          ELSE idbConductors
    /\ lastOp' = Op("seedSaveConductors", "returned")
    /\ UNCHANGED <<now, scanVars, lsTrips, lsGroups, userVars, lsMigrated, idbTrips,
                   lsPassengers, idbPassengers, lsConductors>>

\* ... up to the answer of `await getPassengers()`
seedReadPassengers ==
    /\ seedRead = "passengers"
    /\ seedRead' = IF DOMAIN idbPassengers = {} THEN "passengersEmpty"
                   ELSE "passengersFound"
    /\ lastOp' = Op("seedReadPassengers", "returned")
    /\ UNCHANGED <<now, scanVars, lsTrips, lsGroups, userVars, lsMigrated, idbTrips,
                   lsPassengers, idbPassengers, lsConductors, idbConductors>>

\* ... and to its end
seedSavePassengers(abort) ==
    /\ seedRead \in {"passengersEmpty", "passengersFound"}
    /\ seedRead' = "done"
    /\ idbPassengers' =
          IF seedRead = "passengersEmpty"
          THEN saveAll(idbPassengers, DefaultPassengers, TRUE, abort).store
          ELSE idbPassengers
    /\ lastOp' = Op("seedSavePassengers", "returned")
    /\ UNCHANGED <<now, scanVars, lsTrips, lsGroups, userVars, lsMigrated, idbTrips,
                   lsPassengers, lsConductors, idbConductors>>

MigrateLegacy ==
    \E ua \in AbortInputs, pa \in AbortInputs, ca \in AbortInputs,
       ta \in AbortInputs, o \in BOOLEAN :
          migrateCollections(ua, pa, ca, ta, o)
SeedSaveConductors == \E a \in AbortInputs : seedSaveConductors(a)
SeedSavePassengers == \E a \in AbortInputs : seedSavePassengers(a)

NextStartup ==
    \/ MigrateLegacy
    \/ seedReadConductors
    \/ SeedSaveConductors
    \/ seedReadPassengers
    \/ SeedSavePassengers
    \/ EditPassenger

SpecStartup == InitLegacy /\ [][NextStartup]_vars

\* C29: the conductors object store never holds a migrated legacy conductor
\* together with a seeded default conductor.
C29_DefaultsOnlyWithoutLegacy ==
    ~ /\ \E i \in 1..Len(LegacyConductors) : LegacyConductors[i].id \in DOMAIN idbConductors
      /\ \E i \in 1..Len(DefaultConductors) : DefaultConductors[i].id \in DOMAIN idbConductors

\* ------------------------------------ a migration that is tried again:
\* the legacy installation with its migration and the Passengers page; a
\* passenger is in the object store with the marker unset only after an
\* attempt that wrote the passengers and then failed
NextRetry ==
    \/ MigrateLegacy
    \/ EditPassenger

SpecRetry == InitLegacy /\ [][NextRetry]_vars

\* C30: a migration run that starts with the marker unset leaves in place
\* every stored passenger that differs from the legacy-cache record of the
\* same id, that is, every passenger edited through savePassengers after the
\* failed attempt that stored it.
C30_RetryKeepsEditedPassenger ==
    [][(MigrateLegacy /\ ~ MigrationCompleted(lsMigrated)) =>
          \A id \in DOMAIN idbPassengers :
              (\E i \in 1..Len(lsPassengers) :
                   /\ lsPassengers[i].id = id
                   /\ lsPassengers[i] # idbPassengers[id]) =>
                 /\ id \in DOMAIN idbPassengers'
                 /\ idbPassengers'[id] = idbPassengers[id]
      ]_vars
====
